---- MODULE Spec2Model ----
(***************************************************************************)
(* A model of detect.py, the command-line driver of yolov5-rt-stack:       *)
(* load_names, inference, overlay_boxes and main.                          *)
(*                                                                         *)
(* Text is a sequence of one-character strings.  A coordinate, a box size  *)
(* or a class id that is written to the label file is kept in half units   *)
(* (the integer 2*v), because the centre of a rounded box may be k + 1/2.  *)
(***************************************************************************)
EXTENDS Integers, Sequences, FiniteSets, TLC

VARIABLES
    labelmap,      \* the file at args.labelmap: [exists, content]
    names,         \* args.names
    save_txt,      \* args.save_txt
    save_img,      \* args.save_img
    input_source,  \* args.input_source, a path
    pc,            \* where main stands
    err,           \* the exception that ended the run, "none" otherwise
    steps,         \* the steps main has run so far, in order
    modelCalls,    \* forward passes of the model in this run
    model_out,     \* the detections inference returned
    files,         \* files under args.output_dir: path -> content
    pre,           \* files as they were when overlay_boxes was last entered
    imreads,       \* cv2.imread calls made by the last overlay_boxes call
    printed,       \* what the run has written to stdout, in order
    ret,           \* what the last overlay_boxes call returned
    calls          \* overlay_boxes calls made so far

vars == <<labelmap, names, save_txt, save_img, input_source, pc, err, steps,
          modelCalls, model_out, files, pre, imreads, printed, ret, calls>>

----------------------------------------------------------------------------
(* Bounds of the model *)

MaxFileLen == 4     \* characters in a label file (NamesSpec)
MaxDets == 2        \* boxes in one detections list, over all its entries
MaxPreds == 2       \* prediction entries in one detections list (OverlaySpec)
MaxCalls == 2       \* overlay_boxes calls on one output directory (OverlaySpec)

----------------------------------------------------------------------------
(* Text *)

Chars == {"a", "b", " ", "\n"}
Whitespace == {" ", "\n", "\t", "\r"}

\* Seq(S) restricted to the sequences of at most n elements
SeqsUpTo(S, n) == UNION {[1..k -> S] : k \in 0..n}

\* str.lstrip()
RECURSIVE LStrip(_)
LStrip(s) ==
    IF s = <<>> THEN <<>>
    ELSE IF Head(s) \in Whitespace THEN LStrip(Tail(s)) ELSE s

\* str.rstrip()
RECURSIVE RStrip(_)
RStrip(s) ==
    IF s = <<>> THEN <<>>
    ELSE IF s[Len(s)] \in Whitespace THEN RStrip(SubSeq(s, 1, Len(s) - 1)) ELSE s

\* str.strip()
Strip(s) == RStrip(LStrip(s))

\* `for line in f`: every line keeps its newline; the rest after the last
\* newline is a line too unless it is empty
RECURSIVE FileLines(_, _)
FileLines(content, cur) ==
    IF content = <<>> THEN (IF cur = <<>> THEN <<>> ELSE <<cur>>)
    ELSE IF Head(content) = "\n"
         THEN <<Append(cur, "\n")>> \o FileLines(Tail(content), <<>>)
         ELSE FileLines(Tail(content), Append(cur, Head(content)))

\* load_names on a file that exists, mutated: blank lines are dropped
load_names_skip_blank(content) ==
    LET lines == FileLines(content, <<>>)
        RECURSIVE Keep(_)
        Keep(ls) == IF ls = <<>> THEN <<>>
                    ELSE IF Strip(Head(ls)) = <<>> THEN Keep(Tail(ls))
                    ELSE <<Strip(Head(ls))>> \o Keep(Tail(ls))
    IN  Keep(lines)

\* load_names on a file that exists
load_names(content) ==
    LET lines == FileLines(content, <<>>)
    IN  [i \in 1..Len(lines) |-> Strip(lines[i])]

----------------------------------------------------------------------------
(* Paths *)

\* args.output_dir
OutputDir == <<"o">>

\* PurePath.name: the last component of the path
RECURSIVE PathName(_)
PathName(p) ==
    IF \E i \in DOMAIN p : p[i] = "/"
    THEN PathName(Tail(p))
    ELSE p

\* the index of the last "." of a file name, 0 when it has none (str.rfind)
LastDot(name) ==
    LET dots == {i \in DOMAIN name : name[i] = "."}
    IN  IF dots = {} THEN 0 ELSE CHOOSE i \in dots : \A j \in dots : j <= i

\* PurePath.stem: the name without its last suffix; a leading or a trailing
\* dot starts no suffix
PathStem(p) ==
    LET name == PathName(p)
        i == LastDot(name)
    IN  IF 1 < i /\ i < Len(name) THEN SubSeq(name, 1, i - 1) ELSE name

\* Path(a).joinpath(b)
joinpath(a, b) == a \o <<"/">> \o b

\* save_path of overlay_boxes
save_path(path) == joinpath(OutputDir, PathName(path))

\* txt_path of overlay_boxes
txt_path(path) == joinpath(OutputDir, PathStem(path))

\* f'{txt_path}.txt'
txt_file(path) == txt_path(path) \o <<".", "t", "x", "t">>

----------------------------------------------------------------------------
(* Boxes and label lines *)

\* Tensor.round() on one coordinate given in half pixels: the nearest whole
\* pixel, a tie going to the even one
RoundHalf(r) ==
    LET lo == r \div 2
    IN  IF r % 2 = 0 THEN lo
        ELSE IF lo % 2 = 0 THEN lo ELSE lo + 1

\* pred['boxes'].round() on one box <<x1, y1, x2, y2>>
RoundBox(b) == [i \in 1..4 |-> RoundHalf(b[i])]

\* box_convert(xyxy, "xyxy", "cxcywh"), mutated: width and height come first
box_convert_whcxcy(xyxy) ==
    <<2 * (xyxy[3] - xyxy[1]), 2 * (xyxy[4] - xyxy[2]),
      xyxy[1] + xyxy[3], xyxy[2] + xyxy[4]>>

\* box_convert(xyxy, in_fmt="xyxy", out_fmt="cxcywh") on a box in whole
\* pixels: <<cx, cy, w, h>> in half units
box_convert(xyxy) ==
    <<xyxy[1] + xyxy[3], xyxy[2] + xyxy[4],
      2 * (xyxy[3] - xyxy[1]), 2 * (xyxy[4] - xyxy[2])>>

\* '%g' of a value given in half units: the whole part, and ".5" when the
\* value is not whole (exact below 10^6, where '%g' keeps every digit)
Fmt_g(v) == [whole |-> v \div 2, frac |-> IF v % 2 = 0 THEN "" ELSE ".5"]

\* ('%g ' * 5 + '\n') % (cls_name, *cxcywh): the five fields of one line
label_line(cls_name, cxcywh) ==
    <<Fmt_g(2 * cls_name), Fmt_g(cxcywh[1]), Fmt_g(cxcywh[2]),
      Fmt_g(cxcywh[3]), Fmt_g(cxcywh[4])>>

----------------------------------------------------------------------------
(* overlay_boxes *)

\* a prediction entry: None, or the dict the model returns for one image
NonePred == [isNone |-> TRUE, boxes |-> <<>>, scores |-> <<>>, labels |-> <<>>]

\* len(pred) of a dict: the number of its keys, whatever they hold
PredLen(pred) == Cardinality({"boxes", "scores", "labels"})

\* the elements of a set of numbers in increasing order
RECURSIVE SortedSeq(_)
SortedSeq(S) ==
    IF S = {} THEN <<>>
    ELSE LET m == CHOOSE x \in S : \A y \in S : x <= y
         IN  <<m>> \o SortedSeq(S \ {m})

\* labels.unique(): the distinct labels, sorted
Unique(labels) == SortedSeq({labels[i] : i \in DOMAIN labels})

\* (labels == c).sum()
CountLabel(labels, c) == Cardinality({i \in DOMAIN labels : labels[i] = c})

\* the summary loop, mutated: one entry per detection instead of per class
det_logs_per_box(labels, nm) ==
    [k \in DOMAIN labels |->
        [n |-> Fmt_g(2 * CountLabel(labels, labels[k])),
         name |-> nm[labels[k] + 1] \o <<"s">>]]

\* det_logs after the summary loop: one '%g %ss, ' per distinct label
det_logs(labels, nm) ==
    LET u == Unique(labels)
    IN  [k \in DOMAIN u |->
            [n |-> Fmt_g(2 * CountLabel(labels, u[k])),
             name |-> nm[u[k] + 1] \o <<"s">>]]

\* the lines the write loop appends for one entry, mutated: the first
\* detection is skipped
entry_lines_skip_first(boxes, labels) ==
    [k \in 1..(Len(boxes) - 1) |-> label_line(labels[k + 1], box_convert(boxes[k + 1]))]

\* the lines the write loop appends for one entry, in zip order
entry_lines(boxes, labels) ==
    [k \in DOMAIN boxes |-> label_line(labels[k], box_convert(boxes[k]))]

\* the label lines written so far after the write loop of one entry,
\* mutated: args.save_txt is not looked at
txt_after_unguarded(lines, stxt, boxes, labels) == lines \o entry_lines(boxes, labels)

\* the label lines written so far after the write loop of one entry
txt_after(lines, stxt, boxes, labels) ==
    IF stxt THEN lines \o entry_lines(boxes, labels) ELSE lines

\* what the write loop draws on img for one entry
entry_drawn(boxes, scores, labels, nm) ==
    [k \in DOMAIN boxes |->
        [xyxy |-> boxes[k], name |-> nm[labels[k] + 1], conf |-> scores[k]]]

\* the locals of overlay_boxes before the loop
LoopStart ==
    [lines |-> <<>>, logs |-> <<>>, drawn |-> <<>>, imwrites |-> 0, saved |-> <<>>,
     bound |-> FALSE, boxes |-> <<>>, scores |-> <<>>, labels |-> <<>>,
     err |-> "none"]

\* one pass of the loop body on entry pred
LoopBody(st, pred, nm, stxt, simg) ==
    IF ~pred.isNone /\ PredLen(pred) > 0
    THEN LET boxes == [k \in DOMAIN pred.boxes |-> RoundBox(pred.boxes[k])]
             bnd == [st EXCEPT !.bound = TRUE, !.boxes = boxes,
                               !.scores = pred.scores, !.labels = pred.labels]
         IN  IF \E k \in DOMAIN pred.labels : pred.labels[k] >= Len(nm)
             THEN [bnd EXCEPT !.err = "IndexError"]
             ELSE LET drawn == IF simg
                               THEN st.drawn \o entry_drawn(boxes, pred.scores, pred.labels, nm)
                               ELSE st.drawn
                  IN  [bnd EXCEPT
                         !.lines = txt_after(st.lines, stxt, boxes, pred.labels),
                         !.drawn = drawn,
                         !.logs = Append(st.logs, det_logs(pred.labels, nm)),
                         !.imwrites = IF simg THEN st.imwrites + 1 ELSE st.imwrites,
                         !.saved = IF simg THEN drawn ELSE st.saved]
    ELSE [st EXCEPT !.logs = Append(st.logs, <<>>),
                    !.imwrites = IF simg THEN st.imwrites + 1 ELSE st.imwrites,
                    !.saved = IF simg THEN st.drawn ELSE st.saved]

\* for i, pred in enumerate(detections), up to the first exception
RECURSIVE Loop(_, _, _, _, _)
Loop(st, dets, nm, stxt, simg) ==
    IF dets = <<>> \/ st.err # "none" THEN st
    ELSE Loop(LoopBody(st, Head(dets), nm, stxt, simg), Tail(dets), nm, stxt, simg)

\* return (boxes.tolist(), scores.tolist(), labels.tolist())
overlay_return(st) ==
    IF st.err # "none" THEN st
    ELSE IF st.bound THEN st
    ELSE [st EXCEPT !.err = "UnboundLocalError"]

\* the whole call: the locals when it ends
overlay_boxes(dets, nm, stxt, simg) ==
    overlay_return(Loop(LoopStart, dets, nm, stxt, simg))

\* open(f, 'w') instead: the file holds what was written last
AppendLines_truncate(fs, f, lines) ==
    IF lines = <<>> THEN fs
    ELSE [g \in DOMAIN fs \cup {f} |-> IF g = f THEN <<lines[Len(lines)]>> ELSE fs[g]]

\* open(f, 'a') and write, once per line: the file is created if need be
\* and the lines go after what it holds
AppendLines(fs, f, lines) ==
    IF lines = <<>> THEN fs
    ELSE [g \in DOMAIN fs \cup {f} |->
            IF g = f THEN (IF f \in DOMAIN fs THEN fs[f] ELSE <<>>) \o lines
            ELSE fs[g]]

\* cv2.imwrite: the file is replaced
WriteImage(fs, f, img) ==
    [g \in DOMAIN fs \cup {f} |-> IF g = f THEN img ELSE fs[g]]

\* the files after a call that ended with locals st
FilesAfter(fs, path, st) ==
    LET txt == AppendLines(fs, txt_file(path), st.lines)
    IN  IF st.imwrites > 0 THEN WriteImage(txt, save_path(path), st.saved) ELSE txt

----------------------------------------------------------------------------
(* Inputs *)

\* raw boxes <<x1, y1, x2, y2>> in half pixels, each with its score in
\* hundredths: (0.5, 0, 1.5, 2), (1, 1, 2.5, 4) and (0, 0, 1, 1) in pixels
RawBoxes ==
    {[box |-> <<1, 0, 3, 4>>, score |-> 25],
     [box |-> <<2, 2, 5, 8>>, score |-> 90],
     [box |-> <<0, 0, 2, 2>>, score |-> 50]}

\* the two of them overlay_boxes alone is called with
OverlayBoxes == {b \in RawBoxes : b.score # 50}

\* the class ids the model may give
Labels == {0, 1}

\* the image at args.input_source, which holds every box of RawBoxes
Image == [w |-> 4, h |-> 4]

\* the detections the model may give with the boxes bs
RawDetections(bs) ==
    {[box |-> b.box, score |-> b.score, label |-> l] : b \in bs, l \in Labels}

\* the dict the model returns for the detections ds
PredOf(ds) ==
    [isNone |-> FALSE,
     boxes |-> [k \in DOMAIN ds |-> ds[k].box],
     scores |-> [k \in DOMAIN ds |-> ds[k].score],
     labels |-> [k \in DOMAIN ds |-> ds[k].label]]

\* the dicts of exactly k detections with the boxes bs
PredsOf(k, bs) == {PredOf(ds) : ds \in [1..k -> RawDetections(bs)]}

\* the detections lists of exactly n entries and at most budget boxes
RECURSIVE DetLists(_, _)
DetLists(n, budget) ==
    IF n = 0 THEN {<<>>}
    ELSE {<<NonePred>> \o rest : rest \in DetLists(n - 1, budget)}
         \cup UNION {{<<e>> \o rest : e \in PredsOf(k, OverlayBoxes),
                                      rest \in DetLists(n - 1, budget - k)}
                     : k \in 0..budget}

\* the detections lists overlay_boxes is called with
Detections == UNION {DetLists(n, MaxDets) : n \in 0..MaxPreds}

\* what model([img]) returns for the one image of main: one dict
MainDetections == {<<e>> : e \in UNION {PredsOf(k, RawBoxes) : k \in 0..MaxDets}}

\* args.input_source: "d/z.j" and "a.b.j"
InputSources == {<<"d", "/", "z", ".", "j">>, <<"a", ".", "b", ".", "j">>}

\* the label files main is run with: none, "a\nb\n" and "a\n"
MainLabelMaps ==
    {[exists |-> FALSE, content |-> <<>>],
     [exists |-> TRUE, content |-> <<"a", "\n", "b", "\n">>],
     [exists |-> TRUE, content |-> <<"a", "\n">>]}

\* the label files of at most MaxFileLen characters, and none
AllLabelMaps ==
    {[exists |-> FALSE, content |-> <<>>]}
    \cup {[exists |-> TRUE, content |-> c] : c \in SeqsUpTo(Chars, MaxFileLen)}

\* the name tables overlay_boxes is called with, each with a name for every
\* class id of Labels: those of "a\nb\n" and of "b\nab\na\n"
OverlayNames ==
    {load_names(<<"a", "\n", "b", "\n">>),
     load_names(<<"b", "\n", "a", "b", "\n", "a", "\n">>)}

NoFiles == [f \in {} |-> <<>>]

\* what args.output_dir may hold when main starts: nothing, or the label file
\* an earlier run on the same input left there
PriorFiles(path) ==
    {NoFiles,
     [f \in {txt_file(path), save_path(path)} |->
        IF f = txt_file(path) THEN <<label_line(0, <<1, 1, 2, 2>>)>> ELSE <<>>]}
NoReturn == [returned |-> FALSE, boxes |-> <<>>, scores |-> <<>>, labels |-> <<>>]
Out(kind, logs) == [kind |-> kind, logs |-> logs]

----------------------------------------------------------------------------
(* main *)

Init ==
    /\ labelmap \in MainLabelMaps
    /\ names = <<>>
    /\ save_txt \in BOOLEAN
    /\ save_img \in BOOLEAN
    /\ input_source \in InputSources
    /\ pc = "start"
    /\ err = "none"
    /\ steps = <<>>
    /\ modelCalls = 0
    /\ model_out = <<>>
    /\ files \in PriorFiles(input_source)
    /\ pre = files
    /\ imreads = 0
    /\ printed = <<>>
    /\ ret = NoReturn
    /\ calls = 0

\* a step of main raises: the exception leaves main
Raise(e) ==
    /\ pc' = "failed"
    /\ err' = e

\* print(args); yolov5s(pretrained=True, ...); model.eval(); model.to(device)
Construct ==
    /\ pc = "start"
    /\ printed' = Append(printed, Out("args", <<>>))
    /\ steps' = Append(steps, "construct")
    /\ \/ pc' = "constructed" /\ err' = err
       \/ Raise("ModelError")
    /\ UNCHANGED <<labelmap, names, save_txt, save_img, input_source, modelCalls,
                   model_out, files, pre, imreads, ret, calls>>

\* load_names in main, mutated: a missing label file gives an empty table
LoadNames_recover ==
    /\ pc = "constructed"
    /\ steps' = Append(steps, "load_names")
    /\ names' = IF labelmap.exists THEN load_names(labelmap.content) ELSE <<>>
    /\ pc' = "named"
    /\ UNCHANGED <<labelmap, save_txt, save_img, input_source, err, modelCalls,
                   model_out, files, pre, imreads, printed, ret, calls>>

\* args.names = load_names(Path(args.labelmap))
LoadNames ==
    /\ pc = "constructed"
    /\ steps' = Append(steps, "load_names")
    /\ \/ /\ labelmap.exists
          /\ names' = load_names(labelmap.content)
          /\ pc' = "named"
          /\ err' = err
       \/ /\ ~labelmap.exists
          /\ Raise("FileNotFoundError")
          /\ names' = names
    /\ UNCHANGED <<labelmap, save_txt, save_img, input_source, modelCalls,
                   model_out, files, pre, imreads, printed, ret, calls>>

\* the warm-up, mutated: the forward pass on the zero image is left out
WarmUp_skipped ==
    /\ pc = "named"
    /\ steps' = Append(steps, "warm_up")
    /\ pc' = "warmed"
    /\ UNCHANGED <<labelmap, names, save_txt, save_img, input_source, err, modelCalls,
                   model_out, files, pre, imreads, printed, ret, calls>>

\* _ = model([img]) on the zero image
WarmUp ==
    /\ pc = "named"
    /\ steps' = Append(steps, "warm_up")
    /\ modelCalls' = modelCalls + 1
    /\ \/ pc' = "warmed" /\ err' = err
       \/ Raise("ModelError")
    /\ UNCHANGED <<labelmap, names, save_txt, save_img, input_source,
                   model_out, files, pre, imreads, printed, ret, calls>>

\* model_out, time_consume = inference(model, args.input_source, ...):
\* cv2.imread gives None for a file it cannot read and read_image, of
\* utils.image_utils, raises on it before the model is run
Inference ==
    /\ pc = "warmed"
    /\ steps' = Append(steps, "inference")
    /\ \/ /\ \E d \in MainDetections : model_out' = d
          /\ modelCalls' = modelCalls + 1
          /\ pc' = "inferred"
          /\ err' = err
       \/ /\ Raise("ImageError")          \* the image cannot be read
          /\ UNCHANGED <<model_out, modelCalls>>
       \/ /\ Raise("ModelError")          \* the forward pass raises
          /\ modelCalls' = modelCalls + 1
          /\ model_out' = model_out
    /\ UNCHANGED <<labelmap, names, save_txt, save_img, input_source,
                   files, pre, imreads, printed, ret, calls>>

\* the effect of one overlay_boxes call, out being what was printed before
DoOverlay(out) ==
    LET st == overlay_boxes(model_out, names, save_txt, save_img)
    IN  /\ pre' = files
        /\ files' = FilesAfter(files, input_source, st)
        /\ imreads' = IF save_img THEN 1 ELSE 0
        /\ printed' = out \o [k \in DOMAIN st.logs |-> Out("summary", st.logs[k])]
        /\ ret' = IF st.err = "none"
                  THEN [returned |-> TRUE, boxes |-> st.boxes,
                        scores |-> st.scores, labels |-> st.labels]
                  ELSE NoReturn
        /\ err' = st.err
        /\ calls' = calls + 1

\* _ = overlay_boxes(model_out, args.input_source, time_consume, args)
Overlay ==
    /\ pc = "inferred"
    /\ steps' = Append(steps, "overlay_boxes")
    /\ DoOverlay(printed)
    /\ pc' = IF err' = "none" THEN "overlaid" ELSE "failed"
    /\ UNCHANGED <<labelmap, names, save_txt, save_img, input_source,
                   modelCalls, model_out>>

\* the two prints that end main
Finish ==
    /\ pc = "overlaid"
    /\ steps' = Append(steps, "report")
    /\ printed' = (IF save_txt \/ save_img
                   THEN Append(printed, Out("saved", <<>>)) ELSE printed)
                  \o <<Out("total", <<>>)>>
    /\ pc' = "done"
    /\ UNCHANGED <<labelmap, names, save_txt, save_img, input_source, err,
                   modelCalls, model_out, files, pre, imreads, ret, calls>>

Next == Construct \/ LoadNames \/ WarmUp \/ Inference \/ Overlay \/ Finish

Spec == Init /\ [][Next]_vars

----------------------------------------------------------------------------
(* load_names alone, on every label file *)

NamesInit ==
    /\ labelmap \in AllLabelMaps
    /\ names = <<>>
    /\ save_txt = FALSE
    /\ save_img = FALSE
    /\ input_source = <<"d", "/", "z", ".", "j">>
    /\ pc = "constructed"
    /\ err = "none"
    /\ steps = <<"construct">>
    /\ modelCalls = 0
    /\ model_out = <<>>
    /\ files = NoFiles
    /\ pre = NoFiles
    /\ imreads = 0
    /\ printed = <<Out("args", <<>>)>>
    /\ ret = NoReturn
    /\ calls = 0

NamesNext == LoadNames

NamesSpec == NamesInit /\ [][NamesNext]_vars

----------------------------------------------------------------------------
(* overlay_boxes alone, called again and again with the same arguments *)

OverlayInit ==
    /\ labelmap = [exists |-> FALSE, content |-> <<>>]
    /\ names \in OverlayNames
    /\ save_txt \in BOOLEAN
    /\ save_img \in BOOLEAN
    /\ input_source = <<"d", "/", "z", ".", "j">>
    /\ pc = "call"
    /\ err = "none"
    /\ steps = <<>>
    /\ modelCalls = 0
    /\ model_out \in Detections
    /\ files = NoFiles
    /\ pre = NoFiles
    /\ imreads = 0
    /\ printed = <<>>
    /\ ret = NoReturn
    /\ calls = 0

\* overlay_boxes(detections, path, time_consume, args), called by a test
Call ==
    /\ pc = "call"
    /\ calls < MaxCalls
    /\ DoOverlay(<<>>)
    /\ UNCHANGED <<labelmap, names, save_txt, save_img, input_source, pc, steps,
                   modelCalls, model_out>>

OverlayNext == Call

OverlaySpec == OverlayInit /\ [][OverlayNext]_vars

----------------------------------------------------------------------------
(* What the claims are stated with *)

\* the content of file f, empty when there is no such file
Content(fs, f) == IF f \in DOMAIN fs THEN fs[f] ELSE <<>>

\* the label file and the image file the documentation names for each input:
\* <output_dir>/<stem>.txt and <output_dir>/<file name>
DocTxt ==
    IF input_source = <<"d", "/", "z", ".", "j">>
    THEN <<"o", "/", "z", ".", "t", "x", "t">>
    ELSE <<"o", "/", "a", ".", "b", ".", "t", "x", "t">>
DocImg ==
    IF input_source = <<"d", "/", "z", ".", "j">>
    THEN <<"o", "/", "z", ".", "j">>
    ELSE <<"o", "/", "a", ".", "b", ".", "j">>

\* the lines the last overlay_boxes call added to the label file
NewLines ==
    LET now == Content(files, DocTxt)
        was == Content(pre, DocTxt)
    IN  SubSeq(now, Len(was) + 1, Len(now))

IsPrefix(s, t) == Len(s) <= Len(t) /\ SubSeq(t, 1, Len(s)) = s

\* the number of boxes over the entries of a detections list
RECURSIVE TotalBoxes(_)
TotalBoxes(dets) ==
    IF dets = <<>> THEN 0
    ELSE (IF Head(dets).isNone THEN 0 ELSE Len(Head(dets).boxes)) + TotalBoxes(Tail(dets))

\* the number a written field stands for, in half units
Value(field) == 2 * field.whole + (IF field.frac = ".5" THEN 1 ELSE 0)

\* v is the raw coordinate r (half pixels) rounded to a whole pixel
IsRounded(r, v) ==
    /\ 2 * v - r \in {-1, 0, 1}
    /\ (r % 2 = 1 => v % 2 = 0)

RECURSIVE SumSeq(_)
SumSeq(q) == IF q = <<>> THEN 0 ELSE Head(q) + SumSeq(Tail(q))

Overlaid == calls > 0

----------------------------------------------------------------------------
(* C3: load_names *)

\* the positions of the newlines of the label file, in increasing order
NewlinesAt == SortedSeq({i \in DOMAIN labelmap.content : labelmap.content[i] = "\n"})

\* the number of lines of the label file: one per newline, and one more for
\* what follows the last newline if anything does
NumLines ==
    LET c == labelmap.content
    IN  Len(NewlinesAt) + (IF c # <<>> /\ c[Len(c)] # "\n" THEN 1 ELSE 0)

\* line i of the label file, without its newline
LineAt(i) ==
    LET c == labelmap.content
        from == IF i = 1 THEN 1 ELSE NewlinesAt[i - 1] + 1
        to == IF i <= Len(NewlinesAt) THEN NewlinesAt[i] - 1 ELSE Len(c)
    IN  SubSeq(c, from, to)

\* l without the whitespace around it: from its first to its last character
\* that is no whitespace
Trimmed(l) ==
    LET solid == {i \in DOMAIN l : l[i] \notin Whitespace}
    IN  IF solid = {} THEN <<>>
        ELSE SubSeq(l, CHOOSE i \in solid : \A j \in solid : i <= j,
                       CHOOSE i \in solid : \A j \in solid : j <= i)

NonEmpty(l) == l # <<>>

\* C3 as amended: load_names returns one entry per line of the label file,
\* blank lines included (each gives an empty name), every entry being its
\* line stripped of surrounding whitespace, in file order.
C3_OneNamePerLine ==
    pc = "named" =>
        /\ Len(names) = NumLines
        /\ \A i \in DOMAIN names : names[i] = Trimmed(LineAt(i))

\* a label file with a blank line before a name: the name's index counts
\* the blank line
C3_Witness ==
    /\ pc = "named"
    /\ \E i, j \in DOMAIN names : i < j /\ names[i] = <<>> /\ names[j] # <<>>

\* C3 as claimed: the returned list is the sequence of the non-empty lines
\* of the file, stripped, in order.
C3_OneNamePerNonEmptyLine ==
    pc = "named" =>
        names = [k \in DOMAIN SelectSeq([i \in 1..NumLines |-> LineAt(i)], NonEmpty) |->
                    Trimmed(SelectSeq([i \in 1..NumLines |-> LineAt(i)], NonEmpty)[k])]

----------------------------------------------------------------------------
(* C7: the order of main's steps *)

MainSteps == <<"construct", "load_names", "warm_up", "inference", "overlay_boxes", "report">>

\* C7: main runs construct, load_names, one warm-up pass, one pass on the
\* input image, overlay_boxes and the report in this order, each at most
\* once; the model has run once when the warm-up has returned and twice when
\* inference has, never more; a run that ends without an exception has run
\* every step; and no output file changes before inference has returned.
C7_FixedOrder ==
    /\ IsPrefix(steps, MainSteps)
    /\ modelCalls <= 2
    /\ (pc \in {"start", "constructed", "named"} => modelCalls = 0)
    /\ (pc = "warmed" => modelCalls = 1)
    /\ (pc \in {"inferred", "overlaid", "done"} => modelCalls = 2)
    /\ (pc = "done" => steps = MainSteps)
    /\ (files # pre \/ calls > 0 =>
            /\ modelCalls = 2
            /\ \E i \in DOMAIN steps : steps[i] = "inference" /\ i < Len(steps))

\* a run that reached its end and wrote the label file
C7_Witness ==
    /\ pc = "done"
    /\ modelCalls = 2
    /\ Len(Content(files, DocTxt)) > Len(Content(pre, DocTxt))

----------------------------------------------------------------------------
(* C8: exceptions leave main *)

\* the step that raises each exception in main
RaisedBy(e) ==
    CASE e = "FileNotFoundError" -> {"load_names"}
      [] e = "ImageError" -> {"inference"}
      [] e = "ModelError" -> {"construct", "warm_up", "inference"}
      [] e \in {"IndexError", "UnboundLocalError"} -> {"overlay_boxes"}
      [] OTHER -> {}

\* C8: when a step of main raises, main ends with that exception: the step
\* that raised is the last step run, no step is run twice, nothing can
\* happen afterwards; a run with no label file ends in load_names with no
\* forward pass run and no output file changed; and only a run that did not
\* raise reports.
C8_FailuresPropagate ==
    /\ (pc = "failed" <=> err # "none")
    /\ (pc = "failed" =>
            /\ ~ENABLED Next
            /\ steps # <<>>
            /\ steps[Len(steps)] \in RaisedBy(err)
            /\ \A k \in DOMAIN printed : printed[k].kind \notin {"saved", "total"})
    /\ \A i, j \in DOMAIN steps : steps[i] = steps[j] => i = j
    /\ (~labelmap.exists /\ Len(steps) >= 2 =>
            /\ pc = "failed"
            /\ err = "FileNotFoundError"
            /\ steps = <<"construct", "load_names">>
            /\ modelCalls = 0
            /\ calls = 0
            /\ files = pre)

\* a run whose label file is missing has ended in load_names
C8_Witness ==
    /\ pc = "failed"
    /\ err = "FileNotFoundError"
    /\ ~labelmap.exists

----------------------------------------------------------------------------
(* C2: nothing is written for a save flag that is off *)

\* C2: with save_txt off overlay_boxes leaves the label file as it was
\* (absent if it was absent); with save_img off it reads no image and leaves
\* the image file as it was; with both off every file is as it was; and
\* main prints 'Results saved to ...' only if one of the flags is on.
C2_NoWriteWhenFlagOff ==
    /\ (Overlaid /\ ~save_txt =>
            /\ (DocTxt \in DOMAIN files <=> DocTxt \in DOMAIN pre)
            /\ Content(files, DocTxt) = Content(pre, DocTxt))
    /\ (Overlaid /\ ~save_img =>
            /\ imreads = 0
            /\ (DocImg \in DOMAIN files <=> DocImg \in DOMAIN pre)
            /\ Content(files, DocImg) = Content(pre, DocImg))
    /\ (Overlaid /\ ~save_txt /\ ~save_img => files = pre)
    /\ ((\E k \in DOMAIN printed : printed[k].kind = "saved") => save_txt \/ save_img)

\* a run with both flags off that had two boxes to write and reached its end
C2_Witness ==
    /\ pc = "done"
    /\ ~save_txt
    /\ ~save_img
    /\ TotalBoxes(model_out) = 2
    /\ files = pre

----------------------------------------------------------------------------
(* C5: the names of the output files and the fields of a label line *)

\* the whole pixel the raw coordinate r rounds to
RoundedOf(r) == CHOOSE v \in 0..r : IsRounded(r, v)

\* the call has printed the summary of an entry
SummaryPrinted == \E k \in DOMAIN printed : printed[k].kind = "summary"

----------------------------------------------------------------------------
(* C6: the unit of the label lines *)

\* a raw box lies in the image
InImage(b) == b[1] >= 0 /\ b[2] >= 0 /\ b[3] <= 2 * Image.w /\ b[4] <= 2 * Image.h

\* C6 as claimed: the four box values of every line overlay_boxes writes for
\* a box inside the image are relative to the image size, hence in 0..1.
C6_LinesNormalized ==
    Overlaid /\ (\A k \in DOMAIN model_out[1].boxes : InImage(model_out[1].boxes[k])) =>
        \A k \in DOMAIN NewLines : \A i \in 2..5 :
            Value(NewLines[k][i]) >= 0 /\ Value(NewLines[k][i]) <= 2

----------------------------------------------------------------------------
(* C1: one label line per detection *)

\* C1: a call of overlay_boxes with save_txt adds to <output_dir>/<stem>.txt
\* exactly as many lines as the detections list holds boxes over its entries
\* that are not None, none when there is no box.
C1_OneLinePerDetection ==
    Overlaid /\ save_txt =>
        Len(Content(files, DocTxt)) = Len(Content(pre, DocTxt)) + TotalBoxes(model_out)

\* a call with save_txt on two entries of one box each, which added two lines
C1_Witness ==
    /\ Overlaid
    /\ save_txt
    /\ Len(model_out) = 2
    /\ \A k \in DOMAIN model_out : ~model_out[k].isNone /\ Len(model_out[k].boxes) = 1
    /\ Len(Content(files, DocTxt)) = Len(Content(pre, DocTxt)) + 2

----------------------------------------------------------------------------
(* C4: the summary *)

\* C4: a call prints one summary per entry, the k-th for the k-th entry; the
\* summary holds one
\* '<n> <name>s' for each distinct label of the entry and nothing else, n
\* being the number of detections with that label and name names[label], so
\* that the counts add up to the number of detections of the entry.
C4_SummaryPerClass ==
    Overlaid =>
        /\ Len(printed) = Len(model_out)
        /\ \A k \in DOMAIN printed :
              LET logs == printed[k].logs
                  labels == model_out[k].labels
                  present == {labels[i] : i \in DOMAIN labels}
              IN  /\ printed[k].kind = "summary"
                  /\ Len(logs) = Cardinality(present)
                  /\ \A c \in present :
                        Cardinality({j \in DOMAIN logs :
                            /\ logs[j].name = Append(names[c + 1], "s")
                            /\ logs[j].n.frac = ""
                            /\ logs[j].n.whole = Cardinality({i \in DOMAIN labels : labels[i] = c})})
                        = 1
                  /\ SumSeq([j \in DOMAIN logs |-> logs[j].n.whole]) = Len(labels)

\* a summary of one class that counts two detections
C4_Witness ==
    /\ Overlaid
    /\ \E k \in DOMAIN printed :
          /\ Len(printed[k].logs) = 1
          /\ printed[k].logs[1].n.whole = 2
          /\ Len(model_out[k].boxes) = 2

----------------------------------------------------------------------------
(* C9: what overlay_boxes returns *)

\* the last entry of a detections list, None for the empty list
LastPred(dets) == IF dets = <<>> THEN NonePred ELSE dets[Len(dets)]

\* C9 as claimed: for every detections list, the empty one and one of None
\* entries included, overlay_boxes returns three lists of equal length, the rounded boxes, the scores and the labels
\* of the last entry in their order, and never ends in an unbound-variable
\* error once it has printed a summary or written the image.
C9_ReturnsTriple ==
    Overlaid =>
        /\ ret.returned
        /\ Len(ret.boxes) = Len(ret.scores)
        /\ Len(ret.scores) = Len(ret.labels)
        /\ Len(ret.boxes) = Len(LastPred(model_out).boxes)
        /\ \A k \in DOMAIN ret.boxes :
              /\ \A i \in 1..4 : IsRounded(LastPred(model_out).boxes[k][i], ret.boxes[k][i])
              /\ ret.scores[k] = LastPred(model_out).scores[k]
              /\ ret.labels[k] = LastPred(model_out).labels[k]
        /\ ~(err = "UnboundLocalError" /\ (printed # <<>> \/ DocImg \in DOMAIN files))

----------------------------------------------------------------------------
(* C10: the label file is only ever appended to *)

\* C10: a call of overlay_boxes removes no file and keeps what the label file
\* held as the head of what it holds afterwards; the lines of every entry of
\* the list go to the one file <output_dir>/<stem>.txt; and after k calls
\* with save_txt on the same input and the same detections of n boxes the
\* file, empty before, holds k*n lines, those of the first call k times over.
C10_AppendOnly ==
    Overlaid =>
        /\ DOMAIN pre \subseteq DOMAIN files
        /\ IsPrefix(Content(pre, DocTxt), Content(files, DocTxt))
        /\ DOMAIN files \subseteq {DocTxt, DocImg}
        /\ (save_txt =>
                LET now == Content(files, DocTxt)
                    n == TotalBoxes(model_out)
                IN  /\ Len(now) = calls * n
                    /\ \A i \in DOMAIN now : i > n => now[i] = now[i - n])

\* the second call on a list of two entries of one box each: four lines
C10_Witness ==
    /\ calls = 2
    /\ save_txt
    /\ Len(model_out) = 2
    /\ \A k \in DOMAIN model_out : ~model_out[k].isNone /\ Len(model_out[k].boxes) = 1
    /\ Len(Content(pre, DocTxt)) = 2
    /\ Len(Content(files, DocTxt)) = 4

====
